---- MODULE Spec2Model ----
(***************************************************************************)
(* Grover search driver of Cirq/CirqOracles/Grover/grover.py.              *)
(*                                                                         *)
(* Three specifications share the translation of the source:               *)
(*   Spec     run_grover_search with the execution collaborator abstract   *)
(*            (it returns one sampled bit per measurement key);            *)
(*   SpecSim  the same driver with the collaborator simulating the built   *)
(*            circuit gate by gate in exact integer arithmetic;            *)
(*   SpecOps  the oracle adapter and the diffusion operator applied to     *)
(*            amplitude vectors drawn from a bounded set.                  *)
(*                                                                         *)
(* Amplitudes: a state vector is a pair (amp, hs), the amplitude of basis  *)
(* state s being amp[s] / 2^(hs/2); hs counts the Hadamard gates applied   *)
(* and not yet cancelled.  Basis state s holds qubit q in bit q of s.      *)
(***************************************************************************)
EXTENDS Integers, Sequences, FiniteSets

VARIABLES pc, number_of_qubits, oracle, oracle_args, qubits, circuit,
          iterations, i, iterCalls, runs, result, solution, j,
          amp, hs, gi, amp0, mid, opkind, reps

vars == <<pc, number_of_qubits, oracle, oracle_args, qubits, circuit,
          iterations, i, iterCalls, runs, result, solution, j,
          amp, hs, gi, amp0, mid, opkind, reps>>

driverVars == <<number_of_qubits, oracle, oracle_args, qubits, circuit,
                iterations, i, iterCalls, runs, result, solution, j>>

simVars == <<amp, hs, gi>>

opsVars == <<amp0, mid, opkind, reps>>

(* Largest register of the driver specification. *)
MaxN == 6

(* Largest register the gate-by-gate simulation is run on. *)
MaxSimN == 3

(* Largest register of the operator specification. *)
MaxOpN == 2

(* Most basis states with a non-zero amplitude in an input vector. *)
MaxSupport == 2

(* Most consecutive applications of one operator. *)
MaxReps == 2

(* The values an input amplitude takes. *)
AmpValues == {-1, 0, 1}

(* Python's None. *)
None == [kind |-> "None"]

(* The caller's marking oracle and the internal one of oracles.py. *)
CallerOracle == "caller_oracle"

CheckIfAllZeros == "check_if_all_zeros"

(***************************************************************************)
(* Bits and register values.                                               *)
(***************************************************************************)
Bit(s, q) == (s \div (2 ^ q)) % 2

Flip(s, q) == IF Bit(s, q) = 0 THEN s + 2 ^ q ELSE s - 2 ^ q

RECURSIVE RegValueUpTo(_, _, _)
RegValueUpTo(s, qs, n) ==
    IF n = 0 THEN 0
    ELSE RegValueUpTo(s, qs, n - 1) + Bit(s, qs[n]) * 2 ^ (n - 1)

(* The value the register qs holds in basis state s, qs[1] lowest. *)
RegValue(s, qs) == RegValueUpTo(s, qs, Len(qs))

RECURSIVE IndexUpTo(_, _)
IndexUpTo(bits, n) ==
    IF n = 0 THEN 0 ELSE IndexUpTo(bits, n - 1) + bits[n] * 2 ^ (n - 1)

(* The register value of a bit string, entry k being qubit k-1. *)
Index(bits) == IndexUpTo(bits, Len(bits))

BitStrings(n) == [1..n -> {0, 1}]

(***************************************************************************)
(* Circuit operations.                                                     *)
(***************************************************************************)
H(q) == [gate |-> "H", qubit |-> q]

X(q) == [gate |-> "X", qubit |-> q]

Mark(o, qs, target, args) ==
    [gate |-> "mark", oracle |-> o, qubits |-> qs, target |-> target,
     args |-> args]

MeasureOp(q) == [gate |-> "measure", qubit |-> q, key |-> q]

(* cirq.NamedQubit.range(n, prefix="qubit"): qubit k stands for "qubit{k}". *)
NamedQubitRange(n) == [k \in 1..n |-> k - 1]

(* cirq.H.on_each over the register *)
HOnEach(qs) == [k \in 1..Len(qs) |-> H(qs[k])]

(* cirq.measure_each over the register: the key of a measurement is its qubit's name. *)
(* Variant: the last qubit is left unmeasured. *)
MeasureEachDropsLast(c, qs) ==
    c \o [k \in 1..(IF Len(qs) = 0 THEN 0 ELSE Len(qs) - 1) |-> MeasureOp(qs[k])]

MeasureEach(c, qs) == c \o [k \in 1..Len(qs) |-> MeasureOp(qs[k])]

(* The auxiliary flag qubit of the adapter, distinct from the register. *)
PhaseMarker(qs) == Len(qs)

(* A marking oracle called on (circuit, qubits, target, args): it appends
   the operations that flip target when the register satisfies it. *)
CallOracle(c, o, qs, target, args) == Append(c, Mark(o, qs, target, args))

(* utility.run_flip_marker_as_phase_marker: the flag qubit is brought from
   zero to the state the flip negates, the oracle is run on it, and the
   preparation is undone. *)
(* Variant: the flag qubit is not inverted before its Hadamard. *)
RunFlipMarkerNoX(c, o, qs, args) ==
    LET t == PhaseMarker(qs)
        c1 == c \o <<H(t)>>
        c2 == CallOracle(c1, o, qs, t, args)
    IN  c2 \o <<H(t)>>

RunFlipMarkerAsPhaseMarker(c, o, qs, args) ==
    LET t == PhaseMarker(qs)
        c1 == c \o <<X(t), H(t)>>
        c2 == CallOracle(c1, o, qs, t, args)
    IN  c2 \o <<H(t), X(t)>>

(* grover_iteration, the diffusion operator. *)
(* Variant: the closing layer is left out. *)
DiffusionNoSecondLayer(c, qs) ==
    LET c1 == c \o HOnEach(qs)
    IN  RunFlipMarkerAsPhaseMarker(c1, CheckIfAllZeros, qs, None)

Diffusion(c, qs) ==
    LET c1 == c \o HOnEach(qs)
        c2 == RunFlipMarkerAsPhaseMarker(c1, CheckIfAllZeros, qs, None)
    IN  c2 \o HOnEach(qs)

(* grover_iteration *)
(* Variant: the diffusion operator runs before the oracle. *)
GroverIterationDiffusionFirst(c, o, qs, args) ==
    RunFlipMarkerAsPhaseMarker(Diffusion(c, qs), o, qs, args)

(* Variant: the caller's oracle is handed None. *)
GroverIterationDropsArgs(c, o, qs, args) ==
    Diffusion(RunFlipMarkerAsPhaseMarker(c, o, qs, None), qs)

GroverIteration(c, o, qs, args) ==
    Diffusion(RunFlipMarkerAsPhaseMarker(c, o, qs, args), qs)

(* The largest f with f*f <= m. *)
ISqrt(m) == CHOOSE f \in 0..m : f * f <= m /\ m < (f + 1) * (f + 1)

(* round(2 ** (n / 2)): the square root of 2^n rounded to the nearest
   integer; it is never half way between two integers. *)
(* Variant: the root is truncated. *)
IterationsFloor(n) == ISqrt(2 ^ n)

Iterations(n) ==
    LET m == 2 ^ n
        f == ISqrt(m)
    IN  IF m - f * f > f THEN f + 1 ELSE f

(* for i in range(0, iterations) *)
(* Variant: range(1, iterations). *)
LoopContinuesFromOne(k, n) == k + 1 < n

LoopContinues(k, n) == k < n

(* result.histogram(key=...) of one repetition: outcome -> count. *)
Histogram(b) == [v \in {b} |-> 1]

(* The first state of result.histogram(key=f"qubit{k}"). *)
(* Variant: every entry reads the key of qubit 0. *)
DecodeEntryKeyZero(res, k) == CHOOSE state \in DOMAIN res[0] : TRUE

DecodeEntry(res, k) == CHOOSE state \in DOMAIN res[k] : TRUE

(***************************************************************************)
(* Marking oracles: the register values an oracle flags.                   *)
(***************************************************************************)
Flags(o, args) ==
    IF o = CheckIfAllZeros THEN {0}
    ELSE IF args.kind = "target" THEN {Index(args.bits)}
    ELSE IF args.kind = "set" THEN args.states
    ELSE {}

(***************************************************************************)
(* Gate semantics on (amp, hs).                                            *)
(***************************************************************************)
AllEven(a) == \A s \in DOMAIN a : a[s] % 2 = 0

RECURSIVE Normalize(_)
Normalize(st) ==
    IF st.hs >= 2 /\ AllEven(st.amp)
    THEN Normalize([amp |-> [s \in DOMAIN st.amp |-> st.amp[s] \div 2],
                    hs |-> st.hs - 2])
    ELSE st

ApplyGate(g, st) ==
    LET a == st.amp
    IN  IF g.gate = "H"
        THEN [amp |-> [s \in DOMAIN a |->
                         IF Bit(s, g.qubit) = 0
                         THEN a[s] + a[Flip(s, g.qubit)]
                         ELSE a[Flip(s, g.qubit)] - a[s]],
              hs |-> st.hs + 1]
        ELSE IF g.gate = "X"
        THEN [amp |-> [s \in DOMAIN a |-> a[Flip(s, g.qubit)]], hs |-> st.hs]
        ELSE IF g.gate = "mark"
        THEN [amp |-> [s \in DOMAIN a |->
                         IF RegValue(s, g.qubits) \in Flags(g.oracle, g.args)
                         THEN a[Flip(s, g.target)]
                         ELSE a[s]],
              hs |-> st.hs]
        ELSE st

RECURSIVE RunGates(_, _, _)
RunGates(gates, k, st) ==
    IF k > Len(gates) THEN Normalize(st)
    ELSE RunGates(gates, k + 1, ApplyGate(gates[k], st))

(* The basis states of n register qubits and the flag qubit. *)
Basis(n) == 0..(2 ^ (n + 1) - 1)

RECURSIVE SumSqUpTo(_, _)
SumSqUpTo(a, n) == IF n < 0 THEN 0 ELSE SumSqUpTo(a, n - 1) + a[n] * a[n]

(* Numerator of the probability of register value r, over SumSq. *)
ProbNum(a, n, r) == a[r] * a[r] + a[r + 2 ^ n] * a[r + 2 ^ n]

SumSq(a, n) == SumSqUpTo(a, 2 ^ (n + 1) - 1)

(***************************************************************************)
(* run_grover_search, one action per step of the source.                   *)
(***************************************************************************)
(* The oracle arguments of the driver specification: the bit string the
   caller's oracle flags, all zeros or all ones. *)
DriverArgs(n) == {[kind |-> "target", bits |-> [k \in 1..n |-> b]] : b \in {0, 1}}

(* Every bit string of the register. *)
SimArgs(n) == {[kind |-> "target", bits |-> t] : t \in BitStrings(n)}

InitDriver(sizes) ==
    /\ pc = "start"
    /\ number_of_qubits \in sizes
    /\ oracle = CallerOracle
    /\ qubits = <<>>
    /\ circuit = <<>>
    /\ iterations = 0
    /\ i = 0
    /\ iterCalls = 0
    /\ runs = <<>>
    /\ result = <<>>
    /\ solution = <<>>
    /\ j = 0
    /\ amp = <<>>
    /\ hs = 0
    /\ gi = 0
    /\ amp0 = <<>>
    /\ mid = <<>>
    /\ opkind = "none"
    /\ reps = 0

Init ==
    /\ InitDriver(0..MaxN)
    /\ oracle_args \in DriverArgs(number_of_qubits)

(* Lines 99-101: the register, the empty circuit, the call of grover_search. *)
Start ==
    /\ pc = "start"
    /\ qubits' = NamedQubitRange(number_of_qubits)
    /\ circuit' = <<>>
    /\ pc' = "search"
    /\ UNCHANGED <<number_of_qubits, oracle, oracle_args, iterations, i,
                   iterCalls, runs, result, solution, j>>
    /\ UNCHANGED <<simVars, opsVars>>

(* Lines 74-75: the first layer and the number of rounds. *)
SearchInit ==
    /\ pc = "search"
    /\ circuit' = circuit \o HOnEach(qubits)
    /\ iterations' = Iterations(Len(qubits))
    /\ i' = 0
    /\ pc' = "loop"
    /\ UNCHANGED <<number_of_qubits, oracle, oracle_args, qubits, iterCalls,
                   runs, result, solution, j>>
    /\ UNCHANGED <<simVars, opsVars>>

(* Lines 76-77: one round. *)
LoopIter ==
    /\ pc = "loop"
    /\ LoopContinues(i, iterations)
    /\ circuit' = GroverIteration(circuit, oracle, qubits, oracle_args)
    /\ iterCalls' = iterCalls + 1
    /\ i' = i + 1
    /\ UNCHANGED <<pc, number_of_qubits, oracle, oracle_args, qubits,
                   iterations, runs, result, solution, j>>
    /\ UNCHANGED <<simVars, opsVars>>

(* Line 76, the range is exhausted: grover_search returns. *)
LoopExit ==
    /\ pc = "loop"
    /\ ~LoopContinues(i, iterations)
    /\ pc' = "measure"
    /\ UNCHANGED <<driverVars, simVars, opsVars>>

(* Line 102. *)
Measure ==
    /\ pc = "measure"
    /\ circuit' = MeasureEach(circuit, qubits)
    /\ pc' = "run"
    /\ UNCHANGED <<number_of_qubits, oracle, oracle_args, qubits, iterations,
                   i, iterCalls, runs, result, solution, j>>
    /\ UNCHANGED <<simVars, opsVars>>

MeasuredAt(c) == {p \in 1..Len(c) : c[p].gate = "measure"}

(* The result of one repetition in which the qubits were found in basis
   state s: a histogram per measurement key. *)
ResultOf(c, s) ==
    [k \in {c[p].key : p \in MeasuredAt(c)} |->
        Histogram(Bit(s, c[CHOOSE p \in MeasuredAt(c) : c[p].key = k].qubit))]

(* Lines 105-109 with the collaborator abstract: one call, one sample. *)
Run ==
    /\ pc = "run"
    /\ runs' = Append(runs, [circuit |-> circuit, repetitions |-> 1])
    /\ \E s \in 0..(2 ^ number_of_qubits - 1) : result' = ResultOf(circuit, s)
    /\ solution' = [k \in 1..number_of_qubits |-> 0]
    /\ j' = 0
    /\ pc' = "decode"
    /\ UNCHANGED <<number_of_qubits, oracle, oracle_args, qubits, circuit,
                   iterations, i, iterCalls>>
    /\ UNCHANGED <<simVars, opsVars>>

(* Lines 110-114: one entry of the answer. *)
DecodeStep ==
    /\ pc = "decode"
    /\ j < number_of_qubits
    /\ solution' = [solution EXCEPT ![j + 1] = DecodeEntry(result, j)]
    /\ j' = j + 1
    /\ UNCHANGED <<pc, number_of_qubits, oracle, oracle_args, qubits, circuit,
                   iterations, i, iterCalls, runs, result>>
    /\ UNCHANGED <<simVars, opsVars>>

(* Line 116. *)
Return ==
    /\ pc = "decode"
    /\ j >= number_of_qubits
    /\ pc' = "done"
    /\ UNCHANGED <<driverVars, simVars, opsVars>>

Next ==
    \/ Start
    \/ SearchInit
    \/ LoopIter
    \/ LoopExit
    \/ Measure
    \/ Run
    \/ DecodeStep
    \/ Return

Spec == Init /\ [][Next]_vars

(***************************************************************************)
(* The driver with the collaborator simulating the circuit.                *)
(***************************************************************************)
InitSim ==
    /\ InitDriver(0..MaxSimN)
    /\ oracle_args \in SimArgs(number_of_qubits)

(* Lines 105-106: the call; the simulation starts from all qubits zero. *)
SimBegin ==
    /\ pc = "run"
    /\ runs' = Append(runs, [circuit |-> circuit, repetitions |-> 1])
    /\ amp' = [s \in Basis(number_of_qubits) |-> IF s = 0 THEN 1 ELSE 0]
    /\ hs' = 0
    /\ gi' = 1
    /\ pc' = "sim"
    /\ UNCHANGED <<number_of_qubits, oracle, oracle_args, qubits, circuit,
                   iterations, i, iterCalls, result, solution, j>>
    /\ UNCHANGED opsVars

SimGate ==
    /\ pc = "sim"
    /\ gi <= Len(circuit)
    /\ circuit[gi].gate # "measure"
    /\ LET st == Normalize(ApplyGate(circuit[gi], [amp |-> amp, hs |-> hs]))
       IN  amp' = st.amp /\ hs' = st.hs
    /\ gi' = gi + 1
    /\ UNCHANGED <<pc, driverVars, opsVars>>

(* The measurements: one basis state of non-zero probability is sampled. *)
SimSample ==
    /\ pc = "sim"
    /\ IF gi <= Len(circuit) THEN circuit[gi].gate = "measure" ELSE TRUE
    /\ \E s \in Basis(number_of_qubits) :
          /\ amp[s] # 0
          /\ result' = ResultOf(circuit, s)
    /\ solution' = [k \in 1..number_of_qubits |-> 0]
    /\ j' = 0
    /\ pc' = "decode"
    /\ UNCHANGED <<number_of_qubits, oracle, oracle_args, qubits, circuit,
                   iterations, i, iterCalls, runs>>
    /\ UNCHANGED <<simVars, opsVars>>

NextSim ==
    \/ Start
    \/ SearchInit
    \/ LoopIter
    \/ LoopExit
    \/ Measure
    \/ SimBegin
    \/ SimGate
    \/ SimSample
    \/ DecodeStep
    \/ Return

SpecSim == InitSim /\ [][NextSim]_vars

(***************************************************************************)
(* The adapter and the diffusion operator on bounded amplitude vectors.    *)
(***************************************************************************)
Support(a) == {s \in DOMAIN a : a[s] # 0}

(* Register amplitudes from AmpValues, the flag qubit zero. *)
InputVectors(n) ==
    {[s \in Basis(n) |-> IF s < 2 ^ n THEN a[s] ELSE 0] :
        a \in {b \in [0..(2 ^ n - 1) -> AmpValues] :
                  Cardinality(Support(b)) <= MaxSupport}}

SetArgs(n) == {[kind |-> "set", states |-> F] : F \in SUBSET (0..(2 ^ n - 1))}

InitOps ==
    /\ pc = "ops"
    /\ number_of_qubits \in 1..MaxOpN
    /\ oracle = CallerOracle
    /\ oracle_args = None
    /\ qubits = NamedQubitRange(number_of_qubits)
    /\ circuit = <<>>
    /\ iterations = 0
    /\ i = 0
    /\ iterCalls = 0
    /\ runs = <<>>
    /\ result = <<>>
    /\ solution = <<>>
    /\ j = 0
    /\ amp0 \in InputVectors(number_of_qubits)
    /\ amp = amp0
    /\ mid = [amp |-> amp0, hs |-> 0]
    /\ hs = 0
    /\ gi = 0
    /\ opkind = "none"
    /\ reps = 0

(* Line 48 on its own: the adapter on the caller's oracle, with the same
   oracle and arguments at every application. *)
OpAdapter ==
    /\ pc = "ops"
    /\ opkind \in {"none", "adapter"}
    /\ reps < MaxReps
    /\ \E args \in SetArgs(number_of_qubits) :
          /\ opkind = "adapter" => args = oracle_args
          /\ oracle_args' = args
          /\ LET st == RunGates(
                         RunFlipMarkerAsPhaseMarker(<<>>, oracle, qubits, args),
                         1, [amp |-> amp, hs |-> hs])
             IN  amp' = st.amp /\ hs' = st.hs
    /\ mid' = [amp |-> amp, hs |-> hs]
    /\ opkind' = "adapter"
    /\ reps' = reps + 1
    /\ UNCHANGED <<pc, number_of_qubits, oracle, qubits, circuit, iterations,
                   i, iterCalls, runs, result, solution, j, gi, amp0>>

(* Lines 51-54 on their own: the diffusion operator. *)
OpDiffusion ==
    /\ pc = "ops"
    /\ opkind \in {"none", "diffusion"}
    /\ reps < MaxReps
    /\ LET st == RunGates(Diffusion(<<>>, qubits), 1, [amp |-> amp, hs |-> hs])
       IN  amp' = st.amp /\ hs' = st.hs
    /\ mid' = [amp |-> amp, hs |-> hs]
    /\ opkind' = "diffusion"
    /\ reps' = reps + 1
    /\ UNCHANGED <<pc, number_of_qubits, oracle, oracle_args, qubits, circuit,
                   iterations, i, iterCalls, runs, result, solution, j, gi,
                   amp0>>

NextOps ==
    \/ OpAdapter
    \/ OpDiffusion

SpecOps == InitOps /\ [][NextOps]_vars

TypeOK == pc \in {"start", "search", "loop", "measure", "run", "sim",
                  "decode", "done", "ops"}

(***************************************************************************)
(* Properties.                                                             *)
(***************************************************************************)
AfterSearch == pc \in {"measure", "run", "sim", "decode", "done"}

Finished == pc \in {"decode", "done"}

(* The integer nearest to the square root of 2^n. *)
NearestToRoot(n) ==
    CHOOSE k \in 0..(2 ^ n) :
        /\ (2 * k - 1) * (2 * k - 1) < 4 * 2 ^ n
        /\ 4 * 2 ^ n < (2 * k + 1) * (2 * k + 1)

MarksOf(c, o) == {p \in 1..Len(c) : c[p].gate = "mark" /\ c[p].oracle = o}

Target == Index(oracle_args.bits)

(* C1: for every register of N >= 1 qubits and every single target T, the
   state the circuit of grover_search ends in gives T a probability
   strictly greater than 1/2^N. *)
C1_TargetBeatsUniform ==
    (Finished /\ number_of_qubits >= 1) =>
        ProbNum(amp, number_of_qubits, Target) * 2 ^ number_of_qubits
            > SumSq(amp, number_of_qubits)

(* C2: with N = 2 and the oracle flagging exactly [1,0], the final state
   gives [1,0] a probability of at least 0.9. *)
C2_TwoQubitTargetLikely ==
    (Finished /\ number_of_qubits = 2 /\ oracle_args.bits = <<1, 0>>) =>
        10 * ProbNum(amp, number_of_qubits, Target)
            >= 9 * SumSq(amp, number_of_qubits)

(* C3: grover_search invokes grover_iteration exactly round(2^(N/2)) times,
   never more on the way; 1 round for N = 1, 4 for N = 4, 8 for N = 6. *)
C3_IterationCount ==
    /\ iterCalls <= NearestToRoot(number_of_qubits)
    /\ AfterSearch =>
          /\ iterCalls = NearestToRoot(number_of_qubits)
          /\ number_of_qubits = 1 => iterCalls = 1
          /\ number_of_qubits = 4 => iterCalls = 4
          /\ number_of_qubits = 6 => iterCalls = 8

C3_Witness == pc = "done" /\ number_of_qubits = 6 /\ iterCalls = 8

C5_AnswerIsSampledOutcome ==
    Finished =>
        /\ Len(solution) = number_of_qubits
        /\ pc = "done" => j = number_of_qubits
        /\ \A k \in 1..number_of_qubits :
              IF k <= j
              THEN /\ k - 1 \in DOMAIN result
                   /\ DOMAIN result[k - 1] = {solution[k]}
                   /\ result[k - 1][solution[k]] = 1
                   /\ \E p \in MeasuredAt(circuit) :
                         circuit[p].key = k - 1 /\ circuit[p].qubit = qubits[k]
              ELSE solution[k] = 0

C5_Witness ==
    /\ pc = "done"
    /\ number_of_qubits >= 3
    /\ solution[1] = 1
    /\ solution[2] = 0
    /\ solution[3] = 1

(* C6: gates first, then one measurement per qubit, then one execution
   call of one repetition on the circuit as it stays from then on. *)
C6_BuildMeasureRunOnce ==
    /\ Len(runs) <= 1
    /\ pc \in {"start", "search", "loop", "measure", "run"} => runs = <<>>
    /\ pc \in {"start", "search", "loop", "measure"} => MeasuredAt(circuit) = {}
    /\ pc \in {"run", "decode", "done"} =>
          /\ \A p \in 1..Len(circuit) :
                (circuit[p].gate = "measure")
                    <=> (p > Len(circuit) - number_of_qubits)
          /\ \A k \in 1..number_of_qubits :
                Cardinality({p \in MeasuredAt(circuit) :
                                circuit[p].qubit = qubits[k]}) = 1
          /\ Cardinality(MeasuredAt(circuit)) = number_of_qubits
    /\ Finished =>
          /\ Len(runs) = 1
          /\ runs[1].repetitions = 1
          /\ runs[1].circuit = circuit

C6_Witness ==
    /\ pc = "done"
    /\ number_of_qubits = 3
    /\ Len(runs) = 1
    /\ Cardinality(MeasuredAt(circuit)) = 3

(* The gate at position p of the circuit the claim describes: a layer of
   H, then rounds of adapter(caller), H layer, adapter(all-zero), H layer. *)
ExpectedAdapterGate(k, n, o, args) ==
    IF k = 2 THEN Mark(o, NamedQubitRange(n), n, args)
    ELSE IF k \in {0, 4} THEN X(n)
    ELSE H(n)

ExpectedGate(p, n) ==
    LET off == (p - n - 1) % (2 * n + 10)
    IN  IF p <= n THEN H(p - 1)
        ELSE IF off < 5 THEN ExpectedAdapterGate(off, n, CallerOracle, oracle_args)
        ELSE IF off < 5 + n THEN H(off - 5)
        ELSE IF off < 10 + n
             THEN ExpectedAdapterGate(off - 5 - n, n, CheckIfAllZeros, None)
        ELSE H(off - 10 - n)

IsGate(g) == g.gate # "measure"

(* C7: the circuit of grover_search is one H layer followed by k rounds of
   (adapter on the caller's oracle, H layer, adapter on the all-zero
   oracle, H layer), k the rounded square root of 2^N. *)
C7_CircuitShape ==
    pc \in {"loop", "measure", "run", "decode", "done"} =>
        LET g == SelectSeq(circuit, IsGate)
            n == number_of_qubits
        IN  /\ Len(g) = n + iterCalls * (2 * n + 10)
            /\ \A p \in 1..Len(g) : g[p] = ExpectedGate(p, n)
            /\ Cardinality(MarksOf(circuit, CallerOracle)) = iterCalls
            /\ Cardinality(MarksOf(circuit, CheckIfAllZeros)) = iterCalls
            /\ AfterSearch => iterCalls = NearestToRoot(n)

C7_Witness ==
    /\ pc = "measure"
    /\ number_of_qubits = 3
    /\ iterCalls = 3
    /\ Len(circuit) = 51

(* C8: the diffusion operator applied twice returns every amplitude to its
   original value. *)
C8_DiffusionSelfInverse ==
    (pc = "ops" /\ opkind = "diffusion" /\ reps = 2) =>
        amp = amp0 /\ hs = 0

C8_Witness ==
    /\ pc = "ops"
    /\ opkind = "diffusion"
    /\ reps = 2
    /\ number_of_qubits = 2
    /\ Cardinality(Support(amp0)) = 2
    /\ mid # [amp |-> amp0, hs |-> 0]

(* C9: the adapter negates the amplitude of exactly the register values
   the oracle flags, leaves the flag qubit at zero, and applied twice with
   the same oracle and arguments restores every amplitude. *)
C9_AdapterPhaseFlip ==
    LET n == number_of_qubits
        flipped == [s \in Basis(n) |->
                      IF s < 2 ^ n /\ s \in oracle_args.states
                      THEN 0 - amp0[s] ELSE amp0[s]]
    IN  (pc = "ops" /\ opkind = "adapter") =>
            /\ \A s \in Basis(n) : s >= 2 ^ n => amp[s] = 0
            /\ reps = 1 => amp = flipped /\ hs = 0
            /\ reps = 2 => /\ amp = amp0
                           /\ hs = 0
                           /\ mid = [amp |-> flipped, hs |-> 0]

C9_Witness ==
    /\ pc = "ops"
    /\ opkind = "adapter"
    /\ reps = 2
    /\ number_of_qubits = 2
    /\ Cardinality(oracle_args.states) = 2
    /\ mid.amp # amp0

(* C10: every call of the caller's oracle gets the register 0..N-1 in
   order and the oracle_args of run_grover_search; every call of the
   all-zero oracle gets the same register and None. *)
C10_ArgsPassedThrough ==
    pc \in {"search", "loop", "measure", "run", "decode", "done"} =>
        /\ qubits = NamedQubitRange(number_of_qubits)
        /\ \A p \in 1..Len(circuit) :
              circuit[p].gate = "mark" =>
                  /\ circuit[p].qubits = NamedQubitRange(number_of_qubits)
                  /\ circuit[p].oracle \in {CallerOracle, CheckIfAllZeros}
                  /\ circuit[p].oracle = CallerOracle =>
                        circuit[p].args = oracle_args
                  /\ circuit[p].oracle = CheckIfAllZeros =>
                        circuit[p].args = None

C10_Witness ==
    /\ pc = "done"
    /\ number_of_qubits = 4
    /\ Cardinality(MarksOf(circuit, CallerOracle)) = 4
    /\ Cardinality(MarksOf(circuit, CheckIfAllZeros)) = 4
    /\ oracle_args.bits = <<1, 1, 1, 1>>

====
